---- MODULE Spec2Model ----
(***************************************************************************)
(* Verification model of the chunk / index / search engine of the custom   *)
(* RAG backend (backend/app/rag_utils.py, retriever.py, maintenance.py,     *)
(* agents.py).                                                              *)
(*                                                                          *)
(* Strings are sequences of one-character strings.  An embedding vector is  *)
(* a point of a small circle of unit vectors, named by its index; the dot   *)
(* product of two of them (times 100) depends on their circular distance.   *)
(* A file is a sequence of length at most one: <<>> when the path does not  *)
(* exist, <<contents>> when it does.                                        *)
(***************************************************************************)
EXTENDS Integers, Sequences, FiniteSets, TLC

(***************************************************************************)
(* Python string helpers                                                    *)
(***************************************************************************)
Min(a, b) == IF a <= b THEN a ELSE b

Max(a, b) == IF a >= b THEN a ELSE b

\* s[i:j] for 0 <= i, 0 <= j (python slice, 0-based, half open)
Slice(s, i, j) ==
    LET hi == Min(j, Len(s))
    IN  IF i >= hi THEN <<>> ELSE [x \in 1..(hi - i) |-> s[i + x]]

\* str.rfind(ch): 0-based index of the last occurrence, -1 when there is none
RFind(s, ch) ==
    LET hits == {x \in 1..Len(s) : s[x] = ch}
    IN  IF hits = {} THEN -1 ELSE (CHOOSE x \in hits : \A y \in hits : y <= x) - 1

Whitespace == {" ", "\n", "\t", "\r"}

\* str.strip()
Strip(s) ==
    LET keep == {x \in 1..Len(s) : s[x] \notin Whitespace}
    IN  IF keep = {} THEN <<>>
        ELSE LET lo == CHOOSE x \in keep : \A y \in keep : x <= y
                 hi == CHOOSE x \in keep : \A y \in keep : y <= x
             IN  [x \in 1..(hi - lo + 1) |-> s[lo + x - 1]]

\* str.startswith(prefix)
StartsWith(s, prefix) ==
    /\ Len(prefix) <= Len(s)
    /\ \A x \in 1..Len(prefix) : s[x] = prefix[x]

\* text.replace("\r\n", "\n")
RECURSIVE ReplaceCRLF(_)
ReplaceCRLF(s) ==
    IF Len(s) = 0 THEN <<>>
    ELSE IF Len(s) >= 2 /\ s[1] = "\r" /\ s[2] = "\n"
         THEN <<"\n">> \o ReplaceCRLF(Slice(s, 2, Len(s)))
         ELSE <<s[1]>> \o ReplaceCRLF(Slice(s, 1, Len(s)))

\* "\n".join(chunks)
RECURSIVE JoinNL(_)
JoinNL(chunks) ==
    IF Len(chunks) = 0 THEN <<>>
    ELSE IF Len(chunks) = 1 THEN chunks[1]
         ELSE chunks[1] \o <<"\n">> \o JoinNL(Tail(chunks))

(***************************************************************************)
(* rag_utils.chunk_text: the fixed sliding-window chunker                   *)
(***************************************************************************)
DEFAULT_CHUNK_SIZE == 800

DEFAULT_OVERLAP == 200

\* one pass of the while loop at window start i over the normalised text t
RECURSIVE ChunkLoop(_, _, _, _, _)
ChunkLoop(t, i, chunk_size, overlap, chunks) ==
    IF ~(i < Len(t)) THEN chunks
    ELSE LET n      == Len(t)
             end0   == Min(i + chunk_size, n)
             piece0 == Slice(t, i, end0)
             last_space == RFind(piece0, " ")
             trim   == end0 < n /\ 2 * last_space > chunk_size
             piece  == IF trim THEN Slice(piece0, 0, last_space) ELSE piece0
             end    == IF trim THEN i + Len(piece) ELSE end0
             cleaned == Strip(piece)
             out    == IF cleaned # <<>> THEN Append(chunks, cleaned) ELSE chunks
         IN  ChunkLoop(t, Max(end - overlap, end), chunk_size, overlap, out)

chunk_text(text, chunk_size, overlap) ==
    IF text = <<>> THEN <<>>
    ELSE ChunkLoop(ReplaceCRLF(text), 0, chunk_size, overlap, <<>>)

(***************************************************************************)
(* rag_utils.chunk_text_strategy: the strategy chunker of the agents        *)
(***************************************************************************)
SentenceEnd == {".", "!", "?"}

\* (strategy or "fixed").lower(); None and "" are both modelled as ""
Lower(strategy) ==
    CASE strategy = ""         -> "fixed"
      [] strategy = "FIXED"    -> "fixed"
      [] strategy = "Fixed"    -> "fixed"
      [] strategy = "SMART"    -> "smart"
      [] strategy = "Smart"    -> "smart"
      [] strategy = "Sentence" -> "sentence"
      [] OTHER                 -> strategy

\* re.split(r'(?<=[\.\!\?])\s+', t): cur is the piece being collected, x the
\* 1-based position of the next character to read
RECURSIVE SplitSentences(_, _, _, _)
SplitSentences(t, x, cur, out) ==
    IF x > Len(t) THEN Append(out, cur)
    ELSE IF t[x] \in Whitespace /\ x > 1 /\ t[x - 1] \in SentenceEnd
         THEN LET rest == {y \in x..Len(t) : t[y] \notin Whitespace}
                  nxt  == IF rest = {} THEN Len(t) + 1
                          ELSE CHOOSE y \in rest : \A z \in rest : y <= z
              IN  SplitSentences(t, nxt, <<>>, Append(out, cur))
         ELSE SplitSentences(t, x + 1, Append(cur, t[x]), out)

\* the "for sent in sentences" loop; st = [chunks, current]
RECURSIVE SentenceLoop(_, _, _, _)
SentenceLoop(sentences, chunk_size, overlap, st) ==
    IF Len(sentences) = 0 THEN st
    ELSE LET sent == Strip(sentences[1])
             rest == Tail(sentences)
         IN  IF sent = <<>> THEN SentenceLoop(rest, chunk_size, overlap, st)
             ELSE IF Len(st.current) + Len(sent) + 1 <= chunk_size
                  THEN SentenceLoop(rest, chunk_size, overlap,
                           [st EXCEPT !.current = Strip(st.current \o <<" ">> \o sent)])
                  ELSE LET flushed == IF st.current # <<>>
                                      THEN Append(st.chunks, st.current)
                                      ELSE st.chunks
                       IN  IF Len(sent) > chunk_size
                           THEN SentenceLoop(rest, chunk_size, overlap,
                                    [chunks  |-> flushed \o chunk_text(sent, chunk_size, overlap),
                                     current |-> <<>>])
                           ELSE SentenceLoop(rest, chunk_size, overlap,
                                    [chunks |-> flushed, current |-> sent])

\* the "smart" merge loop; st = [merged, buffer]
RECURSIVE SmartLoop(_, _, _)
SmartLoop(chunks, chunk_size, st) ==
    IF Len(chunks) = 0 THEN st
    ELSE LET c == chunks[1]
         IN  IF st.buffer = <<>>
             THEN SmartLoop(Tail(chunks), chunk_size, [st EXCEPT !.buffer = c])
             ELSE IF Len(st.buffer) + Len(c) + 1 <= chunk_size
                  THEN SmartLoop(Tail(chunks), chunk_size,
                           [st EXCEPT !.buffer = st.buffer \o <<"\n">> \o c])
                  ELSE SmartLoop(Tail(chunks), chunk_size,
                           [merged |-> Append(st.merged, st.buffer), buffer |-> c])

chunk_text_strategy(text, strategy, chunk_size, overlap) ==
    IF text = <<>> THEN <<>>
    ELSE IF Lower(strategy) = "fixed" THEN chunk_text(text, chunk_size, overlap)
    ELSE LET sentences == SplitSentences(ReplaceCRLF(text), 1, <<>>, <<>>)
             s1 == SentenceLoop(sentences, chunk_size, overlap,
                                [chunks |-> <<>>, current |-> <<>>])
             chunks == IF s1.current # <<>> THEN Append(s1.chunks, s1.current)
                       ELSE s1.chunks
         IN  IF Lower(strategy) = "smart"
             THEN LET s2 == SmartLoop(chunks, chunk_size, [merged |-> <<>>, buffer |-> <<>>])
                  IN  IF s2.buffer # <<>> THEN Append(s2.merged, s2.buffer) ELSE s2.merged
             ELSE chunks

(***************************************************************************)
(* The embedder (SentenceTransformer, normalize_embeddings=True): a         *)
(* deterministic map from text to a unit vector, and the dot product.        *)
(***************************************************************************)
NVec == 8

CharCode(c) ==
    CASE c = "a" -> 1
      [] c = "b" -> 2
      [] c = "c" -> 3
      [] c = "Q" -> 4
      [] OTHER   -> 0

RECURSIVE CodeSum(_)
CodeSum(s) == IF Len(s) = 0 THEN 0 ELSE CharCode(s[1]) + CodeSum(Tail(s))

\* EMBED_MODEL.encode(text, normalize_embeddings=True)
Encode(text) == CodeSum(text) % NVec

\* EMBED_MODEL.encode(list_of_texts, ...)
EncodeAll(chunks) == [x \in 1..Len(chunks) |-> Encode(chunks[x])]

\* np.dot of two unit vectors, times 100
Dot(u, v) ==
    LET d0 == IF u >= v THEN u - v ELSE v - u
        d  == Min(d0, NVec - d0)
    IN  CASE d = 0 -> 100
          [] d = 1 -> 97
          [] d = 2 -> 95
          [] d = 3 -> 60
          [] OTHER -> 0 - 40

(***************************************************************************)
(* The persisted state and the request handlers                             *)
(***************************************************************************)
\* "G": storage/<user>/ (global index);  "A": storage/<user>/agents/<agent>/
Scopes == {"G", "A"}

Procs == {"p1", "p2"}

MaxOps == 3

AGENT_ID == <<"7">>

SYNTHETIC == <<"_", "_", "s", "y", "n", "t", "h", "e", "t", "i", "c", "_", "_">>

REBUILD_THRESHOLD == 97

SYNTHETIC_CHUNK_SIZE == 500

\* the documents a client may send: Drive files, whose raw bytes are saved
\* before they are indexed.  The file of SynthDocs is named "__synthetic__", the
\* name rebuild_index takes for a stored memory; generate_answer itself never
\* stores one (see AutoMemory)
RawDocs ==
    { [fid |-> <<"a">>, fname |-> <<"x">>, text |-> <<"a", "b">>, raw |-> TRUE],
      [fid |-> <<"b">>, fname |-> <<"y">>, text |-> <<"c", " ", "c">>, raw |-> TRUE],
      [fid |-> <<"c">>, fname |-> <<"z">>, text |-> <<" ">>, raw |-> TRUE] }

SynthDocs ==
    { [fid |-> <<"s", "1">>, fname |-> SYNTHETIC, text |-> <<"Q", "\n", "a">>, raw |-> TRUE] }

NoDoc == [fid |-> <<>>, fname |-> <<>>, text |-> <<>>, raw |-> FALSE]

\* the agent's stored configuration (agents.config)
AgentCfgs ==
    { [chunk_strategy |-> "fixed", chunk_size |-> DEFAULT_CHUNK_SIZE, overlap |-> DEFAULT_OVERLAP],
      [chunk_strategy |-> "fixed", chunk_size |-> 2, overlap |-> 0] }

VARIABLES
    embFile,    \* [Scopes -> file]: embeddings.npy of each scope
    metaFile,   \* [Scopes -> file]: meta.json of each scope
    docsDir,    \* the raw files saved under the user's docs directory
    agentDocs,  \* the rows of table agent_docs, in insertion order
    agentCfg,   \* the agent's configuration
    pc,         \* [Procs -> position of the request / background task]
    loc,        \* [Procs -> its local variables]
    nOps,       \* number of requests started so far
    opLog,      \* the mutations that have returned, in order of return
    logging,    \* whether opLog is kept in this specification
    sIn,        \* the arguments of a search: [vectors, meta, query, k, doc_filter]
    sOut,       \* the list the search returned
    sPhase,     \* "ready", then "search" (retriever.search) or "agent" (agent_generate)
    gOut,       \* the outcome of the latest query (generate_answer / agent_generate)
    ck,         \* a call of the chunker: its arguments, its loop variables, its result
    histFile    \* [Scopes -> the messages of chat_history.json, none when it is absent]

storeVars == <<embFile, metaFile, docsDir, agentDocs, agentCfg, pc, loc, nOps, opLog, logging>>

searchVars == <<sIn, sOut, sPhase, gOut, ck, histFile>>

\* no query has run yet
NoGen ==
    [n |-> 0, scope |-> "G", status |-> "none", query |-> <<>>, answer |-> <<>>,
     save_memory |-> FALSE, ctx |-> <<>>, max_sim |-> 0, novel |-> FALSE,
     memory_saved |-> FALSE, scheduled |-> {}, prev |-> <<>>]

\* no call of the chunker is under way
NoChunk ==
    [phase |-> "off", text |-> <<>>, strategy |-> "fixed", chunk_size |-> 0, overlap |-> 0,
     t |-> <<>>, i |-> 0, end |-> 0, chunks |-> <<>>, iter |-> 0, out |-> <<>>]

IdleLoc ==
    [op |-> "none", scope |-> "G", doc |-> NoDoc, chunks |-> <<>>, vectors |-> <<>>,
     meta |-> <<>>, todo |-> <<>>, pre |-> <<<<>>, <<>>>>, rows |-> <<>>, failed |-> FALSE,
     total_chunks |-> 0, unique_chunks |-> 0, response |-> "none", status |-> "none"]

Exists(f) == f # <<>>

Content(f) == f[1]

\* every order in which iterdir() may list a set of files
Orders(S) ==
    {f \in [1..Cardinality(S) -> S] : \A x, y \in 1..Cardinality(S) : x # y => f[x] # f[y]}

\* the docId an append stores: the Drive file id, or "<agent_id>:<file id>"
DocIdFor(s, d) == IF s = "A" THEN AGENT_ID \o <<":">> \o d.fid ELSE d.fid

\* the text handed to build_and_save_index / build_and_save_index_to_dir
FullTextFor(s, d, cfg) ==
    IF s = "A"
    THEN JoinNL(chunk_text_strategy(d.text, cfg.chunk_strategy, cfg.chunk_size, cfg.overlap))
    ELSE d.text

\* a build that stores the file name as docId and the docId as file name
metas_newSwapped(chunks, doc_id, filename) ==
    [x \in 1..Len(chunks) |-> [text |-> chunks[x], docId |-> filename, filename |-> doc_id]]

metas_new(chunks, doc_id, filename) ==
    [x \in 1..Len(chunks) |-> [text |-> chunks[x], docId |-> doc_id, filename |-> filename]]

\* a build that saves the new vectors alone, dropping the stored ones
VStackOverwrites(f, vectors) == vectors

\* the new vectors stacked under the stored ones, when there are any
VStack(f, vectors) ==
    IF Exists(f) /\ Content(f) # <<>> THEN Content(f) \o vectors ELSE vectors

\* a build that puts the new records before the stored ones
ExtendMetaPrepends(f, new) == IF Exists(f) THEN new \o Content(f) ELSE new

\* the new records appended to the stored ones, when the file exists
ExtendMeta(f, new) == IF Exists(f) THEN Content(f) \o new ELSE new

Quiet == \A q \in Procs : pc[q] = "idle"

NoWriter == \A q \in Procs : pc[q] = "idle" \/ loc[q].op = "load"

\* docs: the document of an append, the raw files a rebuild read, the rows a
\* reindex read
Logged(kind, s, docs, ok) ==
    IF logging THEN Append(opLog, [kind |-> kind, scope |-> s, docs |-> docs, ok |-> ok])
    ELSE opLog

StoreInit ==
    /\ embFile = [s \in Scopes |-> <<>>]
    /\ metaFile = [s \in Scopes |-> <<>>]
    /\ docsDir = {}
    /\ agentDocs = <<>>
    /\ agentCfg \in AgentCfgs
    /\ pc = [p \in Procs |-> "idle"]
    /\ loc = [p \in Procs |-> IdleLoc]
    /\ nOps = 0
    /\ opLog = <<>>
    /\ logging \in BOOLEAN
    /\ sIn = [vectors |-> <<>>, meta |-> <<>>, query |-> <<>>, k |-> 0, doc_filter |-> <<>>]
    /\ sOut = <<>>
    /\ sPhase = "off"
    /\ gOut = NoGen
    /\ ck = NoChunk
    /\ histFile = [s \in Scopes |-> <<>>]

(***************************************************************************)
(* build_and_save_index / build_and_save_index_to_dir, called by           *)
(* drive.download_and_index, retriever.generate_answer (synthetic memory)   *)
(* and agents.upload_files_to_agent                                          *)
(***************************************************************************)
\* a build without the "if not chunks: return 0" test
StartAppendNoZeroTest(p, s, d) ==
    /\ pc[p] = "idle"
    /\ nOps < MaxOps
    /\ s = "A" => d.raw
    /\ nOps' = nOps + 1
    /\ docsDir' = IF s = "G" /\ d.raw THEN docsDir \cup {d} ELSE docsDir
    /\ pc' = [pc EXCEPT ![p] = "a_load_emb"]
    /\ loc' = [loc EXCEPT ![p] =
                  [IdleLoc EXCEPT !.op = "append", !.scope = s, !.doc = d,
                      !.chunks = chunk_text(FullTextFor(s, d, agentCfg),
                                            DEFAULT_CHUNK_SIZE, DEFAULT_OVERLAP),
                      !.vectors = EncodeAll(chunk_text(FullTextFor(s, d, agentCfg),
                                                       DEFAULT_CHUNK_SIZE, DEFAULT_OVERLAP)),
                      !.status = "running"]]
    /\ UNCHANGED <<embFile, metaFile, agentDocs, agentCfg, opLog, logging, searchVars>>

\* the caller saves the raw file, extracts, chunks and embeds
StartAppend(p, s, d) ==
    /\ pc[p] = "idle"
    /\ nOps < MaxOps
    /\ s = "A" => d.raw
    /\ nOps' = nOps + 1
    /\ docsDir' = IF s = "G" /\ d.raw THEN docsDir \cup {d} ELSE docsDir
    /\ LET chunks == chunk_text(FullTextFor(s, d, agentCfg), DEFAULT_CHUNK_SIZE, DEFAULT_OVERLAP)
       IN  IF chunks = <<>>
           THEN \* return 0; the upload handler then records the agent_docs row
                /\ pc' = pc
                /\ loc' = [loc EXCEPT ![p] = [IdleLoc EXCEPT !.op = "append", !.scope = s,
                                                 !.doc = d, !.status = "ok"]]
                /\ agentDocs' = IF s = "A" THEN Append(agentDocs, d) ELSE agentDocs
                /\ opLog' = Logged("append", s, <<d>>, TRUE)
           ELSE /\ pc' = [pc EXCEPT ![p] = "a_load_emb"]
                /\ loc' = [loc EXCEPT ![p] = [IdleLoc EXCEPT !.op = "append", !.scope = s,
                                                 !.doc = d, !.chunks = chunks,
                                                 !.vectors = EncodeAll(chunks),
                                                 !.status = "running"]]
                /\ UNCHANGED <<agentDocs, opLog>>
    /\ UNCHANGED <<embFile, metaFile, agentCfg, logging, searchVars>>

\* EMBED_MODEL.encode raises: the call ends before it writes anything
StartAppendFail(p, s, d) ==
    /\ pc[p] = "idle"
    /\ nOps < MaxOps
    /\ s = "A" => d.raw
    /\ chunk_text(FullTextFor(s, d, agentCfg), DEFAULT_CHUNK_SIZE, DEFAULT_OVERLAP) # <<>>
    /\ nOps' = nOps + 1
    /\ docsDir' = IF s = "G" /\ d.raw THEN docsDir \cup {d} ELSE docsDir
    /\ loc' = [loc EXCEPT ![p] = [IdleLoc EXCEPT !.op = "append", !.scope = s,
                                     !.doc = d, !.status = "error"]]
    /\ opLog' = Logged("append", s, <<d>>, FALSE)
    /\ UNCHANGED <<embFile, metaFile, agentDocs, agentCfg, pc, logging, searchVars>>

\* if emb_path.exists(): existing = np.load(...); vectors = np.vstack(...)
AppendLoadEmb(p) ==
    /\ pc[p] = "a_load_emb"
    /\ loc' = [loc EXCEPT ![p].vectors = VStack(embFile[loc[p].scope], loc[p].vectors)]
    /\ pc' = [pc EXCEPT ![p] = "a_save_emb"]
    /\ UNCHANGED <<embFile, metaFile, docsDir, agentDocs, agentCfg, nOps, opLog, logging, searchVars>>

\* a build that saves every scope's vectors in the user's directory
AppendSaveEmbShared(p) ==
    /\ pc[p] = "a_save_emb"
    /\ embFile' = [embFile EXCEPT !["G"] = <<loc[p].vectors>>]
    /\ pc' = [pc EXCEPT ![p] = "a_load_meta"]
    /\ UNCHANGED <<metaFile, docsDir, agentDocs, agentCfg, loc, nOps, opLog, logging, searchVars>>

\* np.save(emb_path, vectors)
AppendSaveEmb(p) ==
    /\ pc[p] = "a_save_emb"
    /\ embFile' = [embFile EXCEPT ![loc[p].scope] = <<loc[p].vectors>>]
    /\ pc' = [pc EXCEPT ![p] = "a_load_meta"]
    /\ UNCHANGED <<metaFile, docsDir, agentDocs, agentCfg, loc, nOps, opLog, logging, searchVars>>

\* if meta_path.exists(): meta = json.loads(...); meta.extend(metas_new)
AppendLoadMeta(p) ==
    /\ pc[p] = "a_load_meta"
    /\ loc' = [loc EXCEPT ![p].meta =
                   ExtendMeta(metaFile[loc[p].scope],
                              metas_new(loc[p].chunks, DocIdFor(loc[p].scope, loc[p].doc),
                                        loc[p].doc.fname))]
    /\ pc' = [pc EXCEPT ![p] = "a_save_meta"]
    /\ UNCHANGED <<embFile, metaFile, docsDir, agentDocs, agentCfg, nOps, opLog, logging, searchVars>>

\* meta_path.write_text(...); return len(chunks)
AppendSaveMeta(p) ==
    /\ pc[p] = "a_save_meta"
    /\ metaFile' = [metaFile EXCEPT ![loc[p].scope] = <<loc[p].meta>>]
    /\ IF loc[p].op = "reindex"
       THEN \* back in the loop of _do_reindex
            /\ pc' = [pc EXCEPT ![p] = "x_doc"]
            /\ UNCHANGED <<loc, agentDocs, opLog>>
       ELSE /\ pc' = [pc EXCEPT ![p] = "idle"]
            /\ loc' = [loc EXCEPT ![p].status = "ok"]
            /\ agentDocs' = IF loc[p].scope = "A" THEN Append(agentDocs, loc[p].doc)
                            ELSE agentDocs
            /\ opLog' = Logged("append", loc[p].scope, <<loc[p].doc>>, TRUE)
    /\ UNCHANGED <<embFile, docsDir, agentCfg, nOps, logging, searchVars>>

(***************************************************************************)
(* maintenance.rebuild_index (global scope)                                 *)
(***************************************************************************)
\* the smallest of the similarities instead of the largest
MinSim(vectors, v) ==
    LET sims == {Dot(vectors[x], v) : x \in 1..Len(vectors)}
    IN  CHOOSE m \in sims : \A n \in sims : m <= n

\* np.max(np.dot(unique_vectors, v))
MaxSim(vectors, v) ==
    LET sims == {Dot(vectors[x], v) : x \in 1..Len(vectors)}
    IN  CHOOSE m \in sims : \A n \in sims : n <= m

\* the chunk records of one source, as steps 3 "Re-chunk everything" builds them
RebuildMetas(chunks, filename, doc_id) ==
    [x \in 1..Len(chunks) |-> [text |-> chunks[x], filename |-> filename, docId |-> doc_id]]

\* p.name of a saved raw file: f"{fid}-{fname}"
SafeName(d) == d.fid \o <<"-">> \o d.fname

RECURSIVE RawDocMetas(_)
RawDocMetas(raw_docs) ==
    IF Len(raw_docs) = 0 THEN <<>>
    ELSE RebuildMetas(chunk_text(raw_docs[1].text, DEFAULT_CHUNK_SIZE, DEFAULT_OVERLAP),
                      SafeName(raw_docs[1]), SafeName(raw_docs[1]))
         \o RawDocMetas(Tail(raw_docs))

\* the old records with filename "__synthetic__", re-chunked with chunk_size 500
RECURSIVE SyntheticMetas(_)
SyntheticMetas(meta) ==
    IF Len(meta) = 0 THEN <<>>
    ELSE (IF meta[1].filename = SYNTHETIC
          THEN RebuildMetas(chunk_text(meta[1].text, SYNTHETIC_CHUNK_SIZE, DEFAULT_OVERLAP),
                            SYNTHETIC, SYNTHETIC)
          ELSE <<>>)
         \o SyntheticMetas(Tail(meta))

\* step 5: keep a candidate iff it is the first, or its largest similarity to the
\* candidates kept so far is below the threshold; u = [vectors, meta]
RECURSIVE DedupLoop(_, _, _, _)
DedupLoop(vectors, meta_output, x, u) ==
    IF x > Len(vectors) THEN u
    ELSE IF Len(u.vectors) = 0 \/ MaxSim(u.vectors, vectors[x]) < REBUILD_THRESHOLD
         THEN DedupLoop(vectors, meta_output, x + 1,
                        [vectors |-> Append(u.vectors, vectors[x]),
                         meta    |-> Append(u.meta, meta_output[x])])
         ELSE DedupLoop(vectors, meta_output, x + 1, u)

\* steps 1-5 for the raw files in listing order and the old meta.json
RebuildUnique(raw_docs, metaF) ==
    LET meta_output == RawDocMetas(raw_docs)
                       \o (IF Exists(metaF) THEN SyntheticMetas(Content(metaF)) ELSE <<>>)
        vectors == EncodeAll([x \in 1..Len(meta_output) |-> meta_output[x].text])
    IN  [total |-> Len(meta_output),
         unique |-> DedupLoop(vectors, meta_output, 1, [vectors |-> <<>>, meta |-> <<>>])]

\* steps 1-5: read the raw files and the old meta.json, re-chunk, embed, deduplicate
RebuildRead(p) ==
    /\ pc[p] = "idle"
    /\ nOps < MaxOps
    /\ nOps' = nOps + 1
    /\ \E raw_docs \in Orders(docsDir) :
         LET r == RebuildUnique(raw_docs, metaFile["G"])
         IN  IF r.total = 0
             THEN \* HTTPException(400, "No data found to rebuild index.")
                  /\ pc' = pc
                  /\ loc' = [loc EXCEPT ![p] = [IdleLoc EXCEPT !.op = "rebuild",
                                                   !.status = "error"]]
                  /\ opLog' = Logged("rebuild", "G", <<>>, FALSE)
             ELSE /\ pc' = [pc EXCEPT ![p] = "r_save_emb"]
                  /\ loc' = [loc EXCEPT ![p] = [IdleLoc EXCEPT !.op = "rebuild",
                                                   !.vectors = r.unique.vectors,
                                                   !.meta = r.unique.meta,
                                                   !.rows = raw_docs,
                                                   !.pre = <<embFile["G"], metaFile["G"]>>,
                                                   !.total_chunks = r.total,
                                                   !.unique_chunks = Len(r.unique.vectors),
                                                   !.status = "running"]]
                  /\ UNCHANGED opLog
    /\ UNCHANGED <<embFile, metaFile, docsDir, agentDocs, agentCfg, logging, searchVars>>

\* np.save(emb_path, unique_vectors)
RebuildSaveEmb(p) ==
    /\ pc[p] = "r_save_emb"
    /\ embFile' = [embFile EXCEPT !["G"] = <<loc[p].vectors>>]
    /\ pc' = [pc EXCEPT ![p] = "r_save_meta"]
    /\ UNCHANGED <<metaFile, docsDir, agentDocs, agentCfg, loc, nOps, opLog, logging, searchVars>>

\* meta_path.write_text(json.dumps(unique_meta, ...)); return
RebuildSaveMeta(p) ==
    /\ pc[p] = "r_save_meta"
    /\ metaFile' = [metaFile EXCEPT !["G"] = <<loc[p].meta>>]
    /\ pc' = [pc EXCEPT ![p] = "idle"]
    /\ loc' = [loc EXCEPT ![p].status = "ok"]
    /\ opLog' = Logged("rebuild", "G", loc[p].rows, TRUE)
    /\ UNCHANGED <<embFile, docsDir, agentDocs, agentCfg, nOps, logging, searchVars>>

\* EMBED_MODEL.encode raises in step 4: nothing has been written
RebuildFail(p) ==
    /\ pc[p] = "idle"
    /\ nOps < MaxOps
    /\ \E raw_docs \in Orders(docsDir) : RebuildUnique(raw_docs, metaFile["G"]).total > 0
    /\ nOps' = nOps + 1
    /\ loc' = [loc EXCEPT ![p] = [IdleLoc EXCEPT !.op = "rebuild", !.status = "error"]]
    /\ opLog' = Logged("rebuild", "G", <<>>, FALSE)
    /\ UNCHANGED <<embFile, metaFile, docsDir, agentDocs, agentCfg, pc, logging, searchVars>>

(***************************************************************************)
(* agents.reindex_agent_background and its background task _do_reindex      *)
(***************************************************************************)
\* a handler that clears the vectors itself before it answers
StartReindexInline(p) ==
    /\ pc[p] = "idle"
    /\ nOps < MaxOps
    /\ nOps' = nOps + 1
    /\ embFile' = [embFile EXCEPT !["A"] = <<>>]
    /\ pc' = [pc EXCEPT ![p] = "x_unlink_meta"]
    /\ loc' = [loc EXCEPT ![p] = [IdleLoc EXCEPT !.op = "reindex", !.scope = "A",
                                     !.pre = <<embFile["A"], metaFile["A"]>>,
                                     !.response = "queued",
                                     !.status = "running"]]
    /\ UNCHANGED <<metaFile, docsDir, agentDocs, agentCfg, opLog, logging, searchVars>>

\* the handler queues _do_reindex and returns {"reindex_queued": True}; the
\* task starts once the response has been sent
StartReindex(p) ==
    /\ pc[p] = "idle"
    /\ nOps < MaxOps
    /\ nOps' = nOps + 1
    /\ pc' = [pc EXCEPT ![p] = "x_unlink_emb"]
    /\ loc' = [loc EXCEPT ![p] = [IdleLoc EXCEPT !.op = "reindex", !.scope = "A",
                                     !.pre = <<embFile["A"], metaFile["A"]>>,
                                     !.response = "queued",
                                     !.status = "running"]]
    /\ UNCHANGED <<embFile, metaFile, docsDir, agentDocs, agentCfg, opLog, logging, searchVars>>

\* if emb.exists(): emb.unlink()
ReindexUnlinkEmb(p) ==
    /\ pc[p] = "x_unlink_emb"
    /\ embFile' = [embFile EXCEPT !["A"] = <<>>]
    /\ pc' = [pc EXCEPT ![p] = "x_unlink_meta"]
    /\ UNCHANGED <<metaFile, docsDir, agentDocs, agentCfg, loc, nOps, opLog, logging, searchVars>>

\* if meta.exists(): meta.unlink()
ReindexUnlinkMeta(p) ==
    /\ pc[p] = "x_unlink_meta"
    /\ metaFile' = [metaFile EXCEPT !["A"] = <<>>]
    /\ pc' = [pc EXCEPT ![p] = "x_rows"]
    /\ UNCHANGED <<embFile, docsDir, agentDocs, agentCfg, loc, nOps, opLog, logging, searchVars>>

\* SELECT file_id, filename, saved_path FROM agent_docs WHERE agent_id = ?
ReindexRows(p) ==
    /\ pc[p] = "x_rows"
    /\ loc' = [loc EXCEPT ![p].todo = agentDocs, ![p].rows = agentDocs]
    /\ pc' = [pc EXCEPT ![p] = "x_doc"]
    /\ UNCHANGED <<embFile, metaFile, docsDir, agentDocs, agentCfg, nOps, opLog, logging, searchVars>>

\* one pass of "for fid, fname, saved_path in rows": extract, chunk with the
\* agent's strategy, join, and enter build_and_save_index_to_dir
ReindexDoc(p) ==
    /\ pc[p] = "x_doc"
    /\ loc[p].todo # <<>>
    /\ LET d == Head(loc[p].todo)
           chunks == chunk_text(FullTextFor("A", d, agentCfg), DEFAULT_CHUNK_SIZE, DEFAULT_OVERLAP)
       IN  IF chunks = <<>>
           THEN /\ loc' = [loc EXCEPT ![p].todo = Tail(loc[p].todo)]
                /\ pc' = pc
           ELSE /\ loc' = [loc EXCEPT ![p].todo = Tail(loc[p].todo), ![p].doc = d,
                                      ![p].chunks = chunks, ![p].vectors = EncodeAll(chunks)]
                /\ pc' = [pc EXCEPT ![p] = "a_load_emb"]
    /\ UNCHANGED <<embFile, metaFile, docsDir, agentDocs, agentCfg, nOps, opLog, logging, searchVars>>

\* a task without the try/except around a document: the failure ends the
\* request in an error
ReindexDocFailPropagates(p) ==
    /\ pc[p] = "x_doc"
    /\ loc[p].todo # <<>>
    /\ chunk_text(FullTextFor("A", Head(loc[p].todo), agentCfg),
                  DEFAULT_CHUNK_SIZE, DEFAULT_OVERLAP) # <<>>
    /\ loc' = [loc EXCEPT ![p].todo = <<>>, ![p].failed = TRUE, ![p].response = "error"]
    /\ UNCHANGED <<embFile, metaFile, docsDir, agentDocs, agentCfg, pc, nOps, opLog, logging, searchVars>>

\* EMBED_MODEL.encode raises for this document: "Reindex: failed for ...", next row
ReindexDocFail(p) ==
    /\ pc[p] = "x_doc"
    /\ loc[p].todo # <<>>
    /\ chunk_text(FullTextFor("A", Head(loc[p].todo), agentCfg),
                  DEFAULT_CHUNK_SIZE, DEFAULT_OVERLAP) # <<>>
    /\ loc' = [loc EXCEPT ![p].todo = Tail(loc[p].todo), ![p].failed = TRUE]
    /\ UNCHANGED <<embFile, metaFile, docsDir, agentDocs, agentCfg, pc, nOps, opLog, logging, searchVars>>

\* a step of _do_reindex outside the loop raises (sqlite3.connect, execute):
\* "Reindex failed: ...", the task ends
ReindexRowsFail(p) ==
    /\ pc[p] = "x_rows"
    /\ pc' = [pc EXCEPT ![p] = "idle"]
    /\ loc' = [loc EXCEPT ![p].failed = TRUE, ![p].status = "ok"]
    /\ opLog' = Logged("reindex", "A", <<>>, FALSE)
    /\ UNCHANGED <<embFile, metaFile, docsDir, agentDocs, agentCfg, nOps, logging, searchVars>>

\* build_and_save_index_to_dir raises after np.save (json.loads on the stored
\* metadata, or write_text): "Reindex: failed for ...", next row
ReindexAppendRaise(p) ==
    /\ pc[p] \in {"a_load_meta", "a_save_meta"}
    /\ loc[p].op = "reindex"
    /\ pc' = [pc EXCEPT ![p] = "x_doc"]
    /\ loc' = [loc EXCEPT ![p].failed = TRUE]
    /\ UNCHANGED <<embFile, metaFile, docsDir, agentDocs, agentCfg, nOps, opLog, logging, searchVars>>

\* the loop is over: the task ends
ReindexDone(p) ==
    /\ pc[p] = "x_doc"
    /\ loc[p].todo = <<>>
    /\ pc' = [pc EXCEPT ![p] = "idle"]
    /\ loc' = [loc EXCEPT ![p].status = "ok"]
    /\ opLog' = Logged("reindex", "A", loc[p].rows, ~loc[p].failed)
    /\ UNCHANGED <<embFile, metaFile, docsDir, agentDocs, agentCfg, nOps, logging, searchVars>>

(***************************************************************************)
(* retriever.load_user_index / rag_utils.load_index_from_dir                *)
(***************************************************************************)
\* the existence test of both files and np.load(emb_path)
StartLoad(p, s) ==
    /\ pc[p] = "idle"
    /\ nOps < MaxOps
    /\ nOps' = nOps + 1
    /\ IF ~Exists(embFile[s]) \/ ~Exists(metaFile[s])
       THEN \* HTTPException(400, "No indexed documents found.") / FileNotFoundError
            /\ loc' = [loc EXCEPT ![p] = [IdleLoc EXCEPT !.op = "load", !.scope = s,
                                             !.status = "notfound"]]
            /\ pc' = pc
       ELSE /\ loc' = [loc EXCEPT ![p] = [IdleLoc EXCEPT !.op = "load", !.scope = s,
                                             !.vectors = Content(embFile[s]),
                                             !.status = "running"]]
            /\ pc' = [pc EXCEPT ![p] = "l_meta"]
    /\ UNCHANGED <<embFile, metaFile, docsDir, agentDocs, agentCfg, opLog, logging, searchVars>>

\* json.loads(meta_path.read_text(...)); return vectors, meta
LoadMeta(p) ==
    /\ pc[p] = "l_meta"
    /\ IF Exists(metaFile[loc[p].scope])
       THEN loc' = [loc EXCEPT ![p].meta = Content(metaFile[loc[p].scope]), ![p].status = "ok"]
       ELSE loc' = [loc EXCEPT ![p].status = "error"]
    /\ pc' = [pc EXCEPT ![p] = "idle"]
    /\ UNCHANGED <<embFile, metaFile, docsDir, agentDocs, agentCfg, nOps, opLog, logging, searchVars>>

(***************************************************************************)
(* The process stops and is restarted: every request and background task   *)
(* in flight is gone, the files stay as they are                            *)
(***************************************************************************)
Crash ==
    /\ ~Quiet
    /\ pc' = [p \in Procs |-> "idle"]
    /\ loc' = [p \in Procs |-> IdleLoc]
    /\ UNCHANGED <<embFile, metaFile, docsDir, agentDocs, agentCfg, nOps, opLog, logging, searchVars>>

(***************************************************************************)
(* retriever.search and the retrieval of agents.agent_generate              *)
(***************************************************************************)
MaxColl == 3

MaxK == 3

\* the texts, docIds and filters of the searched collections
SearchTexts == {<<"a">>, <<"b">>, <<"c">>}

SearchDocIds == {<<"a">>, <<"a", ":", "x">>, <<"a", "b">>}

SearchFilters == {<<>>, <<"a">>}

SearchQueries == {<<"a">>}

\* sims = np.dot(vectors, q_vec)
Sims(vectors, q_vec) == [x \in 1..Len(vectors) |-> Dot(vectors[x], q_vec)]

\* an argsort that is not reversed
ArgsortAscending(sims) ==
    {idx \in Orders(1..Len(sims)) :
        \A x \in 1..(Len(sims) - 1) : sims[idx[x]] <= sims[idx[x + 1]]}

\* sims.argsort()[::-1]: every order of the (1-based) positions in which the
\* similarities do not increase; numpy fixes no order among equal ones
ArgsortReversed(sims) ==
    {idx \in Orders(1..Len(sims)) :
        \A x \in 1..(Len(sims) - 1) : sims[idx[x]] >= sims[idx[x + 1]]}

\* a filter that forgets the ":" after the owner
AllowedBarePrefix(md, doc_filter) == md # <<>> /\ StartsWith(md, doc_filter)

\* the test "md and str(md).startswith(f"{doc_filter}:")"
Allowed(md, doc_filter) == md # <<>> /\ StartsWith(md, doc_filter \o <<":">>)

\* the "for i in topk_idx" loop of search, at position x of idx
RECURSIVE SearchLoop(_, _, _, _, _, _, _)
SearchLoop(idx, x, sims, meta, k, doc_filter, results) ==
    IF x > Len(idx) THEN results
    ELSE LET i == idx[x]
             m == meta[i]
         IN  IF doc_filter # <<>> /\ ~Allowed(m.docId, doc_filter)
             THEN SearchLoop(idx, x + 1, sims, meta, k, doc_filter, results)
             ELSE LET r2 == Append(results,
                                   [score |-> sims[i], text |-> m.text, filename |-> m.filename,
                                    docId |-> m.docId, chunk_id |-> i - 1])
                  IN  IF Len(r2) >= k THEN r2
                      ELSE SearchLoop(idx, x + 1, sims, meta, k, doc_filter, r2)

\* seq[:k] of python
SliceTo(seq, k) ==
    IF k >= 0 THEN SubSeq(seq, 1, Min(k, Len(seq)))
    ELSE SubSeq(seq, 1, Max(Len(seq) + k, 0))

\* ctx_items of agent_generate for the order idx
CtxItems(idx, sims, meta, k) ==
    LET topk_idx == SliceTo(idx, k)
    IN  [x \in 1..Len(topk_idx) |->
            [score |-> sims[topk_idx[x]], text |-> meta[topk_idx[x]].text,
             filename |-> meta[topk_idx[x]].filename, docId |-> meta[topk_idx[x]].docId,
             chunk_id |-> topk_idx[x] - 1]]

\* a stored collection: record x is paired with the embedding of its text
SearchMetas ==
    UNION {[1..n -> [text : SearchTexts, docId : SearchDocIds, filename : {<<"f">>}]] :
              n \in 1..MaxColl}

SearchInit ==
    /\ \E meta \in SearchMetas, query \in SearchQueries, k \in (0 - 1)..MaxK,
          doc_filter \in SearchFilters :
          sIn = [vectors |-> EncodeAll([x \in 1..Len(meta) |-> meta[x].text]), meta |-> meta,
                 query |-> query, k |-> k, doc_filter |-> doc_filter]
    /\ sOut = <<>>
    /\ sPhase = "ready"
    /\ gOut = NoGen
    /\ ck = NoChunk
    /\ histFile = [s \in Scopes |-> <<>>]

\* retriever.search(query, k, vectors, meta, doc_filter)
Search ==
    /\ sPhase = "ready"
    /\ LET sims == Sims(sIn.vectors, Encode(sIn.query))
       IN  \E idx \in ArgsortReversed(sims) :
              sOut' = SearchLoop(idx, 1, sims, sIn.meta, sIn.k, sIn.doc_filter, <<>>)
    /\ sPhase' = "search"
    /\ UNCHANGED <<sIn, gOut, ck, histFile, storeVars>>

\* agent_generate: sims.argsort()[::-1][:k], no filter
AgentSearch ==
    /\ sPhase = "ready"
    /\ LET sims == Sims(sIn.vectors, Encode(sIn.query))
       IN  \E idx \in ArgsortReversed(sims) : sOut' = CtxItems(idx, sims, sIn.meta, sIn.k)
    /\ sPhase' = "agent"
    /\ UNCHANGED <<sIn, gOut, ck, histFile, storeVars>>

(***************************************************************************)
(* Specifications                                                            *)
(***************************************************************************)
vars == <<storeVars, searchVars>>

\* a step of a call that is under way
Step(p) ==
    \/ AppendLoadEmb(p)
    \/ AppendSaveEmb(p)
    \/ AppendLoadMeta(p)
    \/ AppendSaveMeta(p)
    \/ RebuildSaveEmb(p)
    \/ RebuildSaveMeta(p)
    \/ ReindexUnlinkEmb(p)
    \/ ReindexUnlinkMeta(p)
    \/ ReindexRows(p)
    \/ ReindexDoc(p)
    \/ ReindexDone(p)
    \/ LoadMeta(p)

\* the start of a call that changes a collection
StartWrite(p) ==
    \/ \E s \in Scopes, d \in RawDocs \cup SynthDocs : StartAppend(p, s, d)
    \/ RebuildRead(p)
    \/ StartReindex(p)

\* the embedder raises at the start of an append
StartAppendFailAny(p) ==
    \E s \in Scopes, d \in RawDocs \cup SynthDocs : StartAppendFail(p, s, d)

\* Requests run on the event loop and in the thread pool, background tasks in
\* the thread pool: nothing orders the steps of two calls.  The embedder works.
Next ==
    \E p \in Procs :
        \/ StartWrite(p)
        \/ \E s \in Scopes : StartLoad(p, s)
        \/ Step(p)

Init == StoreInit /\ logging = TRUE

Spec == Init /\ [][Next]_vars

\* One call at a time: a call starts only when no other call is under way.
\* The embedder may raise.
NextSeq ==
    \E p \in Procs :
        \/ Quiet /\ StartWrite(p)
        \/ Quiet /\ \E s \in Scopes : StartLoad(p, s)
        \/ Step(p)
        \/ Quiet /\ StartAppendFailAny(p)
        \/ Quiet /\ RebuildFail(p)
        \/ ReindexDocFail(p)

InitSeq == StoreInit /\ logging = FALSE

SpecSeq == InitSeq /\ [][NextSeq]_vars

\* Writers one at a time, loads at any time.  The embedder works.
NextRead ==
    \E p \in Procs :
        \/ NoWriter /\ StartWrite(p)
        \/ \E s \in Scopes : StartLoad(p, s)
        \/ Step(p)

SpecRead == Init /\ [][NextRead]_vars

\* One call at a time, and the process may stop at any point of it.
NextCrash == NextSeq \/ Crash

SpecCrash == InitSeq /\ [][NextCrash]_vars

\* The searches, on every collection, query, k and filter within the bounds.
InitSearch ==
    /\ embFile = [s \in Scopes |-> <<>>]
    /\ metaFile = [s \in Scopes |-> <<>>]
    /\ docsDir = {}
    /\ agentDocs = <<>>
    /\ agentCfg = [chunk_strategy |-> "fixed", chunk_size |-> DEFAULT_CHUNK_SIZE,
                   overlap |-> DEFAULT_OVERLAP]
    /\ pc = [p \in Procs |-> "idle"]
    /\ loc = [p \in Procs |-> IdleLoc]
    /\ nOps = 0
    /\ opLog = <<>>
    /\ logging = FALSE
    /\ SearchInit

NextSearch == Search \/ AgentSearch

SpecSearch == InitSearch /\ [][NextSearch]_vars

(***************************************************************************)
(* The handlers run alone, from call to return, on a store st = [emb, meta] *)
(***************************************************************************)
EmptyStore == [emb |-> [s \in Scopes |-> <<>>], meta |-> [s \in Scopes |-> <<>>]]

\* build_and_save_index / build_and_save_index_to_dir from call to return
IndexAlone(st, s, d, cfg) ==
    LET chunks == chunk_text(FullTextFor(s, d, cfg), DEFAULT_CHUNK_SIZE, DEFAULT_OVERLAP)
    IN  IF chunks = <<>> THEN st
        ELSE [st EXCEPT !.emb[s] = <<VStack(st.emb[s], EncodeAll(chunks))>>,
                        !.meta[s] = <<ExtendMeta(st.meta[s],
                                                 metas_new(chunks, DocIdFor(s, d), d.fname))>>]

\* rebuild_index from call to return, for the raw files in the order it read them
RebuildAlone(st, raw_docs) ==
    LET r == RebuildUnique(raw_docs, st.meta["G"])
    IN  [st EXCEPT !.emb["G"] = <<r.unique.vectors>>, !.meta["G"] = <<r.unique.meta>>]

RECURSIVE ReindexLoop(_, _, _)
ReindexLoop(st, rows, cfg) ==
    IF Len(rows) = 0 THEN st
    ELSE ReindexLoop(IndexAlone(st, "A", rows[1], cfg), Tail(rows), cfg)

\* _do_reindex from start to end over the rows it read, every document indexed
ReindexAlone(st, rows, cfg) ==
    ReindexLoop([st EXCEPT !.emb["A"] = <<>>, !.meta["A"] = <<>>], rows, cfg)

\* the store a logged call leaves when it runs alone on st; a call that raised
\* before it wrote leaves st
ApplyOp(st, op, cfg) ==
    IF ~op.ok THEN st
    ELSE CASE op.kind = "append"  -> IndexAlone(st, op.scope, op.docs[1], cfg)
           [] op.kind = "rebuild" -> RebuildAlone(st, op.docs)
           [] op.kind = "reindex" -> ReindexAlone(st, op.docs, cfg)

\* the stores left by the logged calls idx run one after the other in some order
RECURSIVE SerialOutcomes(_, _, _, _)
SerialOutcomes(log, idx, st, cfg) ==
    IF idx = {} THEN {st}
    ELSE UNION { SerialOutcomes(log, idx \ {x}, ApplyOp(st, log[x], cfg), cfg) : x \in idx }

\* the store left by the logged calls run one after the other in log order
RECURSIVE InOrder(_, _, _)
InOrder(log, st, cfg) ==
    IF Len(log) = 0 THEN st
    ELSE InOrder(Tail(log), ApplyOp(st, log[1], cfg), cfg)

\* number of rows / records a file holds
Count(f) == IF Exists(f) THEN Len(Content(f)) ELSE 0

(***************************************************************************)
(* retriever.generate_answer and agents.agent_generate: a query, from the  *)
(* request to the response                                                  *)
(***************************************************************************)
SIMILARITY_THRESHOLD == 95

GenQueries == {<<"a">>, <<"c">>}

GenKs == {1, 2}

Answers == {<<"a">>}

\* GEN_MODEL.generate returns an answer or raises
GenOutcomes ==
    {[ok |-> TRUE, answer |-> a] : a \in Answers} \cup {[ok |-> FALSE, answer |-> <<>>]}

\* the names bound at module level in retriever.py: its imports, constants and
\* functions
RetrieverNames ==
    {"json", "np", "Path", "APIRouter", "HTTPException", "Request", "Header",
     "SentenceTransformer", "AutoTokenizer", "AutoModelForSeq2SeqLM", "decode_token",
     "get_user_by_id", "router", "APP_DIR", "STORAGE_DIR", "EMBED_MODEL", "GEN_MODEL_NAME",
     "GEN_TOKENIZER", "GEN_MODEL", "to_serializable", "history_path_for_user",
     "load_history", "save_history", "load_user_index", "search", "retrieve",
     "get_history", "post_history", "generate_answer"}

\* f"Q: {query}\nA: {answer}"
SyntheticText(query, answer) ==
    <<"Q", ":", " ">> \o query \o <<"\n", "A", ":", " ">> \o answer

\* f"synthetic-{ts}"
SyntheticDocId(ts) == <<"s", "y", "n", "t", "h", "e", "t", "i", "c", "-", ToString(ts)>>

\* meta[i] for a row the metadata does not have raises IndexError
MissingRecord == [text |-> <<>>, filename |-> <<"IndexError">>, docId |-> <<>>]

PadMeta(vectors, meta) ==
    [x \in 1..Len(vectors) |-> IF x <= Len(meta) THEN meta[x] ELSE MissingRecord]

\* the AUTO-MEMORY block of generate_answer on the store st at time ts
AutoMemoryMaxSim(st, query) ==
    IF Exists(st.emb["G"]) /\ Content(st.emb["G"]) # <<>>
    THEN MaxSim(Content(st.emb["G"]), Encode(query)) ELSE 0

SyntheticDoc(query, answer, ts) ==
    [fid |-> SyntheticDocId(ts), fname |-> SYNTHETIC,
     text |-> SyntheticText(query, answer), raw |-> FALSE]

AutoMemory(st, query, answer, ts, cfg) ==
    IF AutoMemoryMaxSim(st, query) < SIMILARITY_THRESHOLD
       /\ "build_and_save_index" \in RetrieverNames
    THEN [max_sim |-> AutoMemoryMaxSim(st, query), novel |-> TRUE, memory_saved |-> TRUE,
          st |-> IndexAlone(st, "G", SyntheticDoc(query, answer, ts), cfg)]
    ELSE \* not novel, or the call raises NameError and the except clause sets
         \* memory_saved = False
         [max_sim |-> AutoMemoryMaxSim(st, query),
          novel |-> AutoMemoryMaxSim(st, query) < SIMILARITY_THRESHOLD,
          memory_saved |-> FALSE, st |-> st]

\* whether load_user_index / load_index_from_dir finds both files
Indexed(st, s) == Exists(st.emb[s]) /\ Exists(st.meta[s])

\* sims.argsort()[::-1] of a query on scope s
QueryOrders(st, s, query) ==
    IF Indexed(st, s) THEN ArgsortReversed(Sims(Content(st.emb[s]), Encode(query)))
    ELSE {<<>>}

\* the context a query retrieves for the order idx: search(...) with no
\* docId, or ctx_items of agent_generate
QueryCtx(st, s, query, k, idx) ==
    IF ~Indexed(st, s) THEN <<>>
    ELSE IF s = "G"
    THEN SearchLoop(idx, 1, Sims(Content(st.emb[s]), Encode(query)),
                    PadMeta(Content(st.emb[s]), Content(st.meta[s])), k, <<>>, <<>>)
    ELSE CtxItems(idx, Sims(Content(st.emb[s]), Encode(query)),
                  PadMeta(Content(st.emb[s]), Content(st.meta[s])), k)

IndexErrorIn(ctx) == \E x \in 1..Len(ctx) : ctx[x].filename = MissingRecord.filename

\* the outcome of the previous query, kept for comparison
Previous(out) ==
    IF out.status = "none" THEN <<>> ELSE <<[out EXCEPT !.prev = <<>>, !.ctx = <<>>]>>

WithMemory(out, mem) ==
    [out |-> [out EXCEPT !.max_sim = mem.max_sim, !.novel = mem.novel,
                         !.memory_saved = mem.memory_saved],
     st |-> mem.st]

\* a query on a scope with no collection that answers with an empty result
NotFoundAsEmpty(base) == [base EXCEPT !.status = "ok"]

\* raise HTTPException(400, "No indexed documents found.") /
\* raise HTTPException(400, "Agent has no indexed documents yet.")
NotFoundResponse(base) == [base EXCEPT !.status = "notfound"]

\* the response of a query and the store it leaves; base holds the request
QueryOutcome(base, st, ctx, gen, ts, cfg) ==
    IF ~Indexed(st, base.scope)
    THEN [out |-> NotFoundResponse(base), st |-> st]
    ELSE IF IndexErrorIn(ctx)
    THEN \* IndexError: the request ends in an unhandled exception
         [out |-> [base EXCEPT !.status = "crash"], st |-> st]
    ELSE IF ~gen.ok
    THEN \* HTTPException(500, "Model generation error")
         [out |-> [base EXCEPT !.status = "generr", !.ctx = ctx], st |-> st]
    ELSE IF base.scope = "G" /\ base.save_memory
    THEN WithMemory([base EXCEPT !.status = "ok", !.ctx = ctx, !.answer = gen.answer],
                    AutoMemory(st, base.query, gen.answer, ts, cfg))
    ELSE [out |-> [base EXCEPT !.status = "ok", !.ctx = ctx, !.answer = gen.answer],
          st |-> st]

\* user_msg and bot_msg of a query answered at time ts
HistoryMessages(out, ts) ==
    <<[role |-> "user", text |-> out.query, ts |-> ts],
      [role |-> "assistant", text |-> out.answer, ts |-> ts + 1, sources |-> out.ctx]>>

\* a handler that records the exchange before it calls the generator
HistoryAfterAlways(hist, out, ts) ==
    IF out.status \in {"ok", "generr"} THEN hist \o HistoryMessages(out, ts) ELSE hist

\* the chat history a query leaves: the two messages are added and saved
\* once the answer has been generated
HistoryAfter(hist, out, ts) ==
    IF out.status = "ok" THEN hist \o HistoryMessages(out, ts) ELSE hist

\* POST /qa/generate (s = "G") and POST /agents/<id>/qa/generate (s = "A")
Generate(p, s, query, k, save_memory, gen) ==
    /\ pc[p] = "idle"
    /\ nOps < MaxOps
    /\ nOps' = nOps + 1
    /\ s = "A" => ~save_memory
    /\ \E idx \in QueryOrders([emb |-> embFile, meta |-> metaFile], s, query) :
          \E r \in {QueryOutcome([NoGen EXCEPT !.n = nOps + 1, !.scope = s, !.query = query,
                                               !.save_memory = save_memory,
                                               !.prev = Previous(gOut)],
                                 [emb |-> embFile, meta |-> metaFile],
                                 QueryCtx([emb |-> embFile, meta |-> metaFile], s, query, k, idx),
                                 gen, nOps + 1, agentCfg)} :
              /\ gOut' = r.out
              /\ histFile' = [histFile EXCEPT ![s] = HistoryAfter(histFile[s], r.out, nOps + 1)]
              /\ embFile' = r.st.emb
              /\ metaFile' = r.st.meta
              /\ opLog' = IF r.out.memory_saved
                          THEN Logged("append", "G",
                                      <<SyntheticDoc(query, gen.answer, nOps + 1)>>, TRUE)
                          ELSE opLog
    /\ UNCHANGED <<docsDir, agentDocs, agentCfg, pc, loc, logging, sIn, sOut, sPhase, ck>>

\* a step of build_and_save_index after np.save raises (json.loads on the
\* stored metadata, or write_text): the call ends there
AppendRaiseAfterSave(p) ==
    /\ pc[p] \in {"a_load_meta", "a_save_meta"}
    /\ loc[p].op = "append"
    /\ pc' = [pc EXCEPT ![p] = "idle"]
    /\ loc' = [loc EXCEPT ![p].status = "error"]
    /\ opLog' = Logged("append", loc[p].scope, <<loc[p].doc>>, FALSE)
    /\ UNCHANGED <<embFile, metaFile, docsDir, agentDocs, agentCfg, nOps, logging, searchVars>>

AppendStep(p) ==
    \/ AppendLoadEmb(p)
    \/ AppendSaveEmb(p)
    \/ AppendLoadMeta(p)
    \/ AppendSaveMeta(p)

\* Appends and queries, one call at a time.  The embedder, the generator
\* and the file system may raise.
NextGen ==
    \E p \in {"p1"} :
        \/ Quiet /\ \E s \in Scopes, d \in RawDocs \cup SynthDocs : StartAppend(p, s, d)
        \/ Quiet /\ StartAppendFailAny(p)
        \/ AppendStep(p)
        \/ AppendRaiseAfterSave(p)
        \/ Quiet /\ \E s \in Scopes, query \in GenQueries, k \in GenKs,
                       save_memory \in BOOLEAN, gen \in GenOutcomes :
                       Generate(p, s, query, k, save_memory, gen)

SpecGen == InitSeq /\ [][NextGen]_vars

\* Appends and loads, one call at a time, with the history of returned calls.
\* The embedder and the file system may raise.
NextAppend ==
    \E p \in {"p1"} :
        \/ Quiet /\ \E s \in Scopes, d \in RawDocs \cup SynthDocs : StartAppend(p, s, d)
        \/ Quiet /\ StartAppendFailAny(p)
        \/ AppendStep(p)
        \/ AppendRaiseAfterSave(p)
        \/ Quiet /\ \E s \in Scopes : StartLoad(p, s)
        \/ LoadMeta(p)

SpecAppend == Init /\ [][NextAppend]_vars

\* the queries of the requests that save a memory
MemoryQueries == {<<"a">>}

\* Uploads, background reindex tasks and queries that save a memory, one at a
\* time.  The embedder, the generator, the database and the file system may
\* raise.
NextTask ==
    \E p \in {"p1"} :
        \/ Quiet /\ \E s \in Scopes, d \in RawDocs : StartAppend(p, s, d)
        \/ AppendStep(p)
        \/ Quiet /\ StartReindex(p)
        \/ ReindexUnlinkEmb(p)
        \/ ReindexUnlinkMeta(p)
        \/ ReindexRows(p)
        \/ ReindexRowsFail(p)
        \/ ReindexDoc(p)
        \/ ReindexDocFail(p)
        \/ ReindexAppendRaise(p)
        \/ ReindexDone(p)
        \/ Quiet /\ \E query \in MemoryQueries, gen \in GenOutcomes :
                       Generate(p, "G", query, 1, TRUE, gen)

SpecTask == InitSeq /\ [][NextTask]_vars

(***************************************************************************)
(* rag_utils.chunk_text, loop pass by loop pass, and chunk_text_strategy    *)
(* as a whole, on small texts and configurations                            *)
(***************************************************************************)
MaxText == 4

MaxChunk == 3

MaxOverlap == 2

\* more passes than a text of MaxText characters needs
MaxIter == MaxText + 1

ChunkChars == {"a", " ", "."}

ChunkTexts == UNION {[1..n -> ChunkChars] : n \in 0..MaxText}

\* the strategies of the docstring, some spellings of them, none, and a name
\* that is not a strategy
KnownStrategies == {"fixed", "sentences", "smart"}

Strategies == KnownStrategies \cup {"", "FIXED", "semantic"}

\* a window one character wider than chunk_size
ChunkWindowWide(t, i, chunk_size) ==
    LET n      == Len(t)
        end0   == Min(i + chunk_size + 1, n)
        piece0 == Slice(t, i, end0)
        last_space == RFind(piece0, " ")
        trim   == end0 < n /\ 2 * last_space > chunk_size
        piece  == IF trim THEN Slice(piece0, 0, last_space) ELSE piece0
    IN  [end |-> IF trim THEN i + Len(piece) ELSE end0, cleaned |-> Strip(piece)]

\* the body of "while i < n" up to "chunks.append(cleaned)" for the window
\* that starts at i
ChunkWindow(t, i, chunk_size) ==
    LET n      == Len(t)
        end0   == Min(i + chunk_size, n)
        piece0 == Slice(t, i, end0)
        last_space == RFind(piece0, " ")
        trim   == end0 < n /\ 2 * last_space > chunk_size
        piece  == IF trim THEN Slice(piece0, 0, last_space) ELSE piece0
    IN  [end |-> IF trim THEN i + Len(piece) ELSE end0, cleaned |-> Strip(piece)]

\* a window that starts overlap characters before the end of the previous one
NextStartOverlapped(end, overlap) == Max(end - overlap, 0)

\* i = max(end - overlap, end)
NextStart(end, overlap) == Max(end - overlap, end)

ChunkInit ==
    \E text \in ChunkTexts, strategy \in Strategies, chunk_size \in 0..MaxChunk,
       overlap \in 0..MaxOverlap :
       ck = [NoChunk EXCEPT !.phase = "ready", !.text = text, !.strategy = strategy,
                            !.chunk_size = chunk_size, !.overlap = overlap]

\* chunk_text up to the loop: "if not text: return []", t, chunks, n, i
ChunkStart ==
    /\ ck.phase = "ready"
    /\ ck' = IF ck.text = <<>> THEN [ck EXCEPT !.phase = "done"]
             ELSE [ck EXCEPT !.phase = "loop", !.t = ReplaceCRLF(ck.text)]
    /\ UNCHANGED <<sIn, sOut, sPhase, gOut, histFile, storeVars>>

\* one pass of the loop
ChunkIter ==
    /\ ck.phase = "loop"
    /\ ck.i < Len(ck.t)
    /\ ck.iter < MaxIter
    /\ \E w \in {ChunkWindow(ck.t, ck.i, ck.chunk_size)} :
          ck' = [ck EXCEPT !.end = w.end,
                           !.chunks = IF w.cleaned # <<>> THEN Append(ck.chunks, w.cleaned)
                                      ELSE ck.chunks,
                           !.i = NextStart(w.end, ck.overlap),
                           !.iter = ck.iter + 1]
    /\ UNCHANGED <<sIn, sOut, sPhase, gOut, histFile, storeVars>>

\* the loop test fails: return chunks
ChunkReturn ==
    /\ ck.phase = "loop"
    /\ ~(ck.i < Len(ck.t))
    /\ ck' = [ck EXCEPT !.phase = "done"]
    /\ UNCHANGED <<sIn, sOut, sPhase, gOut, histFile, storeVars>>

\* chunk_text_strategy(text, strategy, chunk_size, overlap), from call to
\* return, for the chunk sizes with which chunk_text returns
ChunkStrategy ==
    /\ ck.phase = "ready"
    /\ ck.chunk_size >= 1
    /\ ck' = [ck EXCEPT !.phase = "called",
                        !.out = chunk_text_strategy(ck.text, ck.strategy, ck.chunk_size,
                                                    ck.overlap)]
    /\ UNCHANGED <<sIn, sOut, sPhase, gOut, histFile, storeVars>>

InitChunk ==
    /\ embFile = [s \in Scopes |-> <<>>]
    /\ metaFile = [s \in Scopes |-> <<>>]
    /\ docsDir = {}
    /\ agentDocs = <<>>
    /\ agentCfg = [chunk_strategy |-> "fixed", chunk_size |-> DEFAULT_CHUNK_SIZE,
                   overlap |-> DEFAULT_OVERLAP]
    /\ pc = [p \in Procs |-> "idle"]
    /\ loc = [p \in Procs |-> IdleLoc]
    /\ nOps = 0
    /\ opLog = <<>>
    /\ logging = FALSE
    /\ sIn = [vectors |-> <<>>, meta |-> <<>>, query |-> <<>>, k |-> 0, doc_filter |-> <<>>]
    /\ sOut = <<>>
    /\ sPhase = "off"
    /\ gOut = NoGen
    /\ histFile = [s \in Scopes |-> <<>>]
    /\ ChunkInit

NextChunk == ChunkStart \/ ChunkIter \/ ChunkReturn \/ ChunkStrategy

SpecChunk == InitChunk /\ [][NextChunk]_vars

(***************************************************************************)
(* Claims                                                                    *)
(***************************************************************************)

\* C1: after any sequence of completed, non-overlapping mutations of a scope
\* (append, agent append, maintenance rebuild, agent reindex) the number of
\* stored vectors equals the number of stored metadata records.
C1_Parity ==
    Quiet => \A s \in Scopes : Count(embFile[s]) = Count(metaFile[s])

\* C1 witness: two appends and a rebuild have run and left two records
C1_Witness ==
    /\ Quiet
    /\ Count(embFile["G"]) >= 2
    /\ Count(metaFile["G"]) >= 2
    /\ \E p \in Procs : loc[p].op = "rebuild" /\ loc[p].status = "ok"

\* C2 (as claimed): when every call has returned, the collections are those that
\* running the returned mutations one after the other, in some order, leaves.
C2_Serializable ==
    Quiet => \E st \in SerialOutcomes(opLog, 1..Len(opLog), EmptyStore, agentCfg) :
                 st.emb = embFile /\ st.meta = metaFile

\* C3 (as claimed): the pair a load returns has equal lengths and is the
\* collection some completed mutation left.
C3_LoadConsistent ==
    \A p \in Procs :
        (loc[p].op = "load" /\ loc[p].status = "ok") =>
            /\ Len(loc[p].vectors) = Len(loc[p].meta)
            /\ \E k \in 0..Len(opLog) :
                 LET st == InOrder(SubSeq(opLog, 1, k), EmptyStore, agentCfg)
                 IN  /\ st.emb[loc[p].scope] = <<loc[p].vectors>>
                     /\ st.meta[loc[p].scope] = <<loc[p].meta>>

\* C4 (as claimed): when the loop of a reindex is over, whether or not a document
\* failed, the agent's collection is the one from before the reindex or the one
\* with every document indexed.
C4_ReindexAllOrNothing ==
    \A p \in Procs :
        (pc[p] = "x_doc" /\ loc[p].todo = <<>>) =>
            LET full == ReindexAlone(EmptyStore, loc[p].rows, agentCfg)
            IN  \/ <<embFile["A"], metaFile["A"]>> = loc[p].pre
                \/ <<embFile["A"], metaFile["A"]>> = <<full.emb["A"], full.meta["A"]>>

\* C5 (as claimed): whenever no call is under way, also after the process was
\* stopped in the middle of one and restarted, every scope holds as many
\* vectors as metadata records.
C5_ParityAfterRestart ==
    Quiet => \A s \in Scopes : Len(embFile[s]) = Len(metaFile[s])
                               /\ Count(embFile[s]) = Count(metaFile[s])

\* C6 (as claimed): with a filter F and room for every chunk (k at least the
\* size of the collection), search returns every chunk whose docId equals F.
C6_ExactOwnerReturned ==
    (sPhase = "search" /\ sIn.doc_filter # <<>> /\ sIn.k >= Len(sIn.meta)) =>
        \A i \in 1..Len(sIn.meta) :
            sIn.meta[i].docId = sIn.doc_filter =>
                \E x \in 1..Len(sOut) : sOut[x].chunk_id = i - 1

\* C7: when a filter F is given, every result of search has a docId that equals
\* F or begins with F followed by ":".
C7_FilterRespected ==
    (sPhase = "search" /\ sIn.doc_filter # <<>>) =>
        \A x \in 1..Len(sOut) :
            \/ sOut[x].docId = sIn.doc_filter
            \/ StartsWith(sOut[x].docId, sIn.doc_filter \o <<":">>)

\* C7 witness: a filtered search returned chunks and skipped others while it
\* still had room
C7_Witness ==
    /\ sPhase = "search"
    /\ sIn.doc_filter # <<>>
    /\ Len(sOut) >= 2
    /\ Len(sOut) < Len(sIn.meta)
    /\ Len(sOut) < sIn.k

\* C8 (as claimed): search and the agent query return at most k results, and
\* none when k <= 0.
C8_AtMostK ==
    sPhase \in {"search", "agent"} => Len(sOut) <= Max(sIn.k, 0)

\* C9 (as claimed): for k >= 1 and E eligible chunks (no filter, or a docId
\* that equals the filter or begins with it followed by ":"), search returns
\* exactly min(k, E) results, all eligible and distinct, and no eligible chunk
\* left out scores higher than a returned one.
C9_TopEligible ==
    (sPhase = "search" /\ sIn.k >= 1) =>
        LET sims == Sims(sIn.vectors, Encode(sIn.query))
            F    == sIn.doc_filter
            elig == {i \in 1..Len(sIn.meta) :
                        \/ F = <<>>
                        \/ sIn.meta[i].docId = F
                        \/ StartsWith(sIn.meta[i].docId, F \o <<":">>)}
            got  == {sOut[x].chunk_id + 1 : x \in 1..Len(sOut)}
        IN  /\ Len(sOut) = Min(sIn.k, Cardinality(elig))
            /\ Cardinality(got) = Len(sOut)
            /\ got \subseteq elig
            /\ \A i \in elig \ got : \A j \in got : sims[i] <= sims[j]

\* C10: the results of search and of the agent query are in non-increasing
\* score order.
C10_ScoresDescend ==
    sPhase \in {"search", "agent"} =>
        \A x \in 1..(Len(sOut) - 1) : sOut[x].score >= sOut[x + 1].score

\* C10 witness: three results with three different scores
C10_Witness ==
    /\ sPhase \in {"search", "agent"}
    /\ Len(sOut) = 3
    /\ sOut[1].score > sOut[2].score
    /\ sOut[2].score > sOut[3].score

\* C11 (as claimed): when two results of search have equal scores, the chunk
\* appended earlier (the smaller position) comes first.
C11_TiesEarlierFirst ==
    sPhase \in {"search", "agent"} =>
        \A x \in 1..(Len(sOut) - 1) :
            sOut[x].score = sOut[x + 1].score => sOut[x].chunk_id < sOut[x + 1].chunk_id

\* C12: scopes are independent: a step changes the vector file or the metadata
\* file of a scope only when it is a step of a call on that scope, and a load
\* gets past the existence test only on a scope that has both files (so a load
\* of a scope never appended to reports not-found whatever the other scope holds).
C12_ScopesIndependent ==
    [][/\ \A s \in Scopes :
            (embFile'[s] # embFile[s] \/ metaFile'[s] # metaFile[s]) =>
                \E p \in Procs : pc[p] # "idle" /\ loc[p].scope = s
       /\ \A p \in Procs :
            (pc[p] = "idle" /\ loc'[p] # loc[p] /\ loc'[p].op = "load"
                /\ loc'[p].status # "notfound") =>
                Exists(embFile[loc'[p].scope]) /\ Exists(metaFile[loc'[p].scope])]_vars

\* C12 witness: the agent scope holds a collection, the global scope was never
\* appended to, and a load of the global scope has reported not-found
C12_Witness ==
    /\ Quiet
    /\ Exists(embFile["A"]) /\ Exists(metaFile["A"])
    /\ ~Exists(embFile["G"]) /\ ~Exists(metaFile["G"])
    /\ docsDir = {}
    /\ \E p \in Procs : loc[p].op = "load" /\ loc[p].scope = "G" /\ loc[p].status = "notfound"

\* C13: a query's load fails with the explicit not-found response exactly when
\* the vector file or the metadata file of the scope is absent (so a query on a
\* scope never appended to ends in that response, not in a crash or an empty
\* result).
C13_NotFoundIffHalfAbsent ==
    (gOut.status # "none" /\ gOut.n = nOps) =>
        (gOut.status = "notfound" <=>
            (~Exists(embFile[gOut.scope]) \/ ~Exists(metaFile[gOut.scope])))

\* C13 witness: a query has just been answered not-found on a scope that has
\* its vector file but no metadata file
C13_Witness ==
    /\ gOut.status = "notfound"
    /\ gOut.n = nOps
    /\ Exists(embFile[gOut.scope])
    /\ ~Exists(metaFile[gOut.scope])

\* the chunks of the one append that has stored anything in scope s, when the
\* calls returned so far on s are that append and appends that returned 0;
\* <<>> otherwise
OnlyAppend(s) ==
    LET OnS(op)    == op.scope = s
        ops        == SelectSeq(opLog, OnS)
        Chunks(op) == chunk_text(FullTextFor(s, op.docs[1], agentCfg),
                                 DEFAULT_CHUNK_SIZE, DEFAULT_OVERLAP)
        Stored(op) == Chunks(op) # <<>>
        eff        == SelectSeq(ops, Stored)
    IN  IF (\A x \in 1..Len(ops) : ops[x].ok /\ ops[x].kind = "append") /\ Len(eff) = 1
        THEN <<[doc |-> eff[1].docs[1], chunks |-> Chunks(eff[1])]>>
        ELSE <<>>

\* C14: round trip: when the only append that stored anything in a scope is
\* append(T), a load of the scope returns as many vectors and records as T has
\* chunks; record i holds chunk i of T with the docId and file name given to
\* the append, and vector i is the embedding of chunk i.
C14_RoundTrip ==
    \A p \in Procs :
        (loc[p].op = "load" /\ loc[p].status = "ok" /\ OnlyAppend(loc[p].scope) # <<>>) =>
            LET a == OnlyAppend(loc[p].scope)[1]
            IN  /\ Len(loc[p].vectors) = Len(a.chunks)
                /\ Len(loc[p].meta) = Len(a.chunks)
                /\ \A i \in 1..Len(a.chunks) :
                      /\ loc[p].meta[i] = [text |-> a.chunks[i],
                                           docId |-> DocIdFor(loc[p].scope, a.doc),
                                           filename |-> a.doc.fname]
                      /\ loc[p].vectors[i] = Encode(a.chunks[i])

\* C14 witness: the agent scope was empty, one append stored chunks in it, and
\* a load has returned them
C14_Witness ==
    \E p \in Procs :
        /\ loc[p].op = "load" /\ loc[p].status = "ok" /\ loc[p].scope = "A"
        /\ OnlyAppend("A") # <<>>
        /\ Len(loc[p].meta) >= 1

\* C15: an append whose text yields no chunk returns 0 at once: it ends in the
\* step that started it, and that step leaves the vector file and the metadata
\* file of every scope as they were (a scope without a collection still has none).
C15_ZeroChunksNoEffect ==
    [][\A p \in Procs :
          (/\ pc[p] = "idle"
           /\ nOps' # nOps
           /\ loc'[p].op = "append"
           /\ chunk_text(FullTextFor(loc'[p].scope, loc'[p].doc, agentCfg),
                         DEFAULT_CHUNK_SIZE, DEFAULT_OVERLAP) = <<>>) =>
              /\ pc'[p] = "idle"
              /\ loc'[p].status = "ok"
              /\ loc'[p].chunks = <<>>
              /\ embFile' = embFile
              /\ metaFile' = metaFile]_vars

\* C15 witness: an append of a whitespace-only text has returned 0 on a scope
\* that has no collection
C15_Witness ==
    \E p \in Procs :
        /\ pc[p] = "idle"
        /\ loc[p].op = "append" /\ loc[p].status = "ok"
        /\ loc[p].doc.text = <<" ">>
        /\ ~Exists(embFile[loc[p].scope]) /\ ~Exists(metaFile[loc[p].scope])

\* C16 (as claimed): an append that fails, in the embedder or in any later
\* step, leaves both files of the scope as they were: when no call is under
\* way, the store is what the calls that returned normally leave, run one after
\* the other.
C16_FailedAppendNoEffect ==
    Quiet => LET st == InOrder(opLog, EmptyStore, agentCfg)
             IN  st.emb = embFile /\ st.meta = metaFile

\* C17 (as claimed): the synthetic-memory path run twice in a row with the same
\* query and answer, the first time on a collection to which the memory is
\* novel, leaves exactly one record of that memory, and the second run adds
\* nothing.
C17_SyntheticOnce ==
    (/\ gOut.status = "ok" /\ gOut.save_memory /\ gOut.n = nOps
     /\ gOut.prev # <<>>)
    => LET first == gOut.prev[1]
           copies == {x \in 1..Count(metaFile["G"]) :
                         Content(metaFile["G"])[x].text
                             = SyntheticText(gOut.query, gOut.answer)}
       IN  (/\ first.status = "ok" /\ first.save_memory /\ first.novel
            /\ first.n + 1 = gOut.n
            /\ first.query = gOut.query /\ first.answer = gOut.answer)
           => (Cardinality(copies) = 1 /\ ~gOut.memory_saved)

\* C18 (as claimed): a query that reaches the synthetic-memory check keeps its
\* candidate iff the collection is empty or the largest similarity between the
\* candidate and the vectors of the collection is strictly below
\* SIMILARITY_THRESHOLD: the check decides "novel" in exactly those cases, and
\* the memory is stored in exactly those cases.  The candidate's vector is
\* read either as the embedding of the memory "Q: <query>\nA: <answer>" or
\* as the embedding of the query; the claim is taken to hold if it holds for
\* one of the two.
C18_NoveltyDecision ==
    [][(/\ nOps' = nOps + 1 /\ gOut'.n = nOps'
        /\ gOut'.status = "ok" /\ gOut'.save_memory)
       => \E candidate \in {Encode(SyntheticText(gOut'.query, gOut'.answer)),
                            Encode(gOut'.query)} :
             LET existing == IF Exists(embFile["G"]) THEN Content(embFile["G"]) ELSE <<>>
                 keep == existing = <<>>
                         \/ MaxSim(existing, candidate) < SIMILARITY_THRESHOLD
             IN  /\ keep <=> gOut'.novel
                 /\ keep <=> gOut'.memory_saved
                 /\ keep <=> Count(embFile'["G"]) > Count(embFile["G"])]_vars

\* C19: when a maintenance rebuild returns, the global collection is the
\* candidate list (the chunks of the raw files, then the re-chunked synthetic
\* records of the old metadata) restricted, in order, to the set K of kept
\* candidates, where a candidate is in K iff its similarity to every earlier
\* candidate of K is below REBUILD_THRESHOLD; vector i is the embedding of
\* record i; unique_chunks is the number of stored vectors and of stored
\* records, and unique_chunks <= total_chunks.
C19_RebuildKeepsNovelInOrder ==
    [][\A p \in Procs :
         (pc[p] = "r_save_meta" /\ pc'[p] = "idle" /\ loc'[p].status = "ok")
         => LET old == loc[p].pre[2]
                candidates == RawDocMetas(loc[p].rows)
                              \o (IF Exists(old) THEN SyntheticMetas(Content(old)) ELSE <<>>)
                N == Len(candidates)
                vec(x) == Encode(candidates[x].text)
                Kept(K) == \A x \in 1..N :
                              x \in K <=> \A y \in K : y < x => Dot(vec(y), vec(x)) < REBUILD_THRESHOLD
                nth(K, i) == CHOOSE x \in K : Cardinality({y \in K : y <= x}) = i
                stored_v == Content(embFile'["G"])
                stored_m == Content(metaFile'["G"])
            IN  /\ Exists(embFile'["G"]) /\ Exists(metaFile'["G"])
                /\ \E K \in SUBSET (1..N) :
                      /\ Kept(K)
                      /\ stored_m = [i \in 1..Cardinality(K) |-> candidates[nth(K, i)]]
                      /\ stored_v = [i \in 1..Cardinality(K) |-> vec(nth(K, i))]
                /\ loc'[p].unique_chunks = Len(stored_v)
                /\ loc'[p].unique_chunks = Len(stored_m)
                /\ loc'[p].total_chunks = N
                /\ loc'[p].unique_chunks <= loc'[p].total_chunks]_vars

\* a rebuild has returned after dropping a duplicate and keeping two candidates
C19_Witness ==
    \E p \in Procs :
        /\ pc[p] = "idle" /\ loc[p].op = "rebuild" /\ loc[p].status = "ok"
        /\ loc[p].unique_chunks >= 2
        /\ loc[p].unique_chunks < loc[p].total_chunks
        /\ embFile["G"] = <<loc[p].vectors>>
        /\ metaFile["G"] = <<loc[p].meta>>

\* the sum of the scores of the returned context, in hundredths
RECURSIVE ScoreSum(_)
ScoreSum(ctx) == IF Len(ctx) = 0 THEN 0 ELSE ctx[1].score + ScoreSum(Tail(ctx))

\* C20 (as claimed): a query that is answered with a mean retrieval score
\* below 0.55 (0 when nothing is returned) has scheduled a full reindex of its
\* scope.
C20_LowScoreSchedulesReindex ==
    (/\ gOut.status = "ok" /\ gOut.n = nOps
     /\ (gOut.ctx = <<>> \/ ScoreSum(gOut.ctx) < 55 * Len(gOut.ctx)))
    => "reindex" \in gOut.scheduled

\* C21: a background reindex task in which a step has failed leaves the
\* response of its request as it was, "reindex queued"; and a query whose
\* auto-memory append has failed (the memory was novel and was not saved) is
\* answered normally, with the answer the generator computed.
C21_TaskFailureNotPropagated ==
    /\ \A p \in Procs :
          (loc[p].op = "reindex" /\ loc[p].failed) => loc[p].response = "queued"
    /\ (gOut.save_memory /\ gOut.novel /\ ~gOut.memory_saved)
          => (gOut.status = "ok" /\ gOut.answer \in Answers)

\* a reindex task has ended after a failure, and the latest query has lost its
\* auto-memory append
C21_Witness ==
    /\ \E p \in Procs : /\ loc[p].op = "reindex" /\ loc[p].failed /\ pc[p] = "idle"
                        /\ loc[p].response = "queued"
    /\ gOut.save_memory /\ gOut.novel /\ ~gOut.memory_saved /\ gOut.status = "ok"

\* C22: the handler of a reindex request changes neither file of any scope and
\* returns "reindex queued"; every step of the background task that changes
\* the agent's collection is taken after that response has been returned.
C22_ReindexAfterResponse ==
    [][\A p \in Procs :
         /\ (pc[p] = "idle" /\ pc'[p] # "idle" /\ loc'[p].op = "reindex")
               => (/\ embFile' = embFile /\ metaFile' = metaFile
                   /\ loc'[p].response = "queued")
         /\ (/\ pc[p] # "idle" /\ loc[p].op = "reindex"
             /\ (embFile'["A"] # embFile["A"] \/ metaFile'["A"] # metaFile["A"]))
               => loc[p].response = "queued"]_vars

\* a background reindex task has replaced the vectors the agent had when the
\* request was made
C22_Witness ==
    \E p \in Procs :
        /\ loc[p].op = "reindex" /\ loc[p].response = "queued"
        /\ Exists(loc[p].pre[1])
        /\ embFile["A"] # loc[p].pre[1]

\* C23: for a non-empty text, chunk_size >= 1 and overlap >= 0, every chunk of
\* fixed chunking has between 1 and chunk_size characters, whether the chunks
\* are taken pass by pass or from the call as a whole, and the two agree: the
\* output is determined by (text, chunk_size, overlap).
C23_ChunksBounded ==
    (ck.text # <<>> /\ ck.chunk_size >= 1 /\ ck.phase \in {"loop", "done", "called"})
    => /\ \A x \in 1..Len(ck.chunks) :
             Len(ck.chunks[x]) >= 1 /\ Len(ck.chunks[x]) <= ck.chunk_size
       /\ LET whole == chunk_text(ck.text, ck.chunk_size, ck.overlap)
          IN  /\ \A x \in 1..Len(whole) :
                    Len(whole[x]) >= 1 /\ Len(whole[x]) <= ck.chunk_size
              /\ ck.phase = "done" => ck.chunks = whole
              /\ (ck.phase = "called" /\ Lower(ck.strategy) = "fixed") => ck.out = whole

\* fixed chunking has returned two chunks, the first one trimmed at a space
C23_Witness ==
    /\ ck.phase = "done" /\ ck.chunk_size = 3
    /\ Len(ck.chunks) = 2
    /\ Len(ck.chunks[1]) = 2

\* C24 (as claimed): for every text and every configuration chunk_text
\* accepts, each pass of its loop moves the window start strictly forward (so
\* the loop ends after at most Len(t) passes).
C24_WindowStartIncreases ==
    [][(ck.phase = "loop" /\ ck'.iter = ck.iter + 1) => ck'.i > ck.i]_vars

\* C25 (as claimed): called with no strategy name, or with a name that is not
\* a known strategy, the chunker returns what fixed chunking returns for the
\* same text, chunk_size and overlap.
C25_UnknownStrategyIsFixed ==
    (ck.phase = "called" /\ Lower(ck.strategy) \notin KnownStrategies \ {"fixed"})
    => ck.out = chunk_text(ck.text, ck.chunk_size, ck.overlap)

\* C29: in fixed chunking with overlap >= 0, the window after a pass starts
\* where the (possibly trimmed) window of that pass ended, so two consecutive
\* windows share no character; and the chunks returned are those returned for
\* every other overlap >= 0 with the same text and chunk_size.
C29_OverlapIgnored ==
    [][/\ (ck.phase = "loop" /\ ck'.iter = ck.iter + 1)
            => (ck'.i = ck'.end /\ ck'.end >= ck.i)
       /\ (ck.phase = "loop" /\ ck'.phase = "done" /\ ck.chunk_size >= 1)
            => \A overlap \in 0..MaxOverlap :
                  ck'.chunks = chunk_text(ck.text, ck.chunk_size, overlap)]_vars

\* fixed chunking with a positive overlap has returned two chunks, the first
\* one trimmed at a space
C29_Witness ==
    /\ ck.phase = "done" /\ ck.overlap > 0 /\ ck.chunk_size = 3
    /\ Len(ck.chunks) = 2
    /\ Len(ck.chunks[1]) = 2
    /\ ck.end = Len(ck.t)

\* C26 (as claimed): every stored metadata record has a field "sequence", and
\* within a collection the sequence values strictly increase with the
\* position.
C26_SequenceIncreasing ==
    \A s \in Scopes :
        Exists(metaFile[s])
        => \A x \in 1..Len(Content(metaFile[s])) :
              /\ "sequence" \in DOMAIN Content(metaFile[s])[x]
              /\ x > 1 => Content(metaFile[s])[x].sequence
                              > Content(metaFile[s])[x - 1].sequence

\* C27 (as claimed): when an agent upload or a pass of an agent reindex
\* writes the records of a document, the texts of the records it adds are the
\* chunks the chunker gives for the document's text with the agent's
\* strategy, chunk_size and overlap, in that order, and the number reported as
\* added is their number.
C27_AgentChunksStoredAsChunked ==
    [][\A p \in Procs :
         (/\ pc[p] = "a_save_meta" /\ loc[p].scope = "A"
          /\ metaFile'["A"] # metaFile["A"])
         => LET expected == chunk_text_strategy(loc[p].doc.text, agentCfg.chunk_strategy,
                                                agentCfg.chunk_size, agentCfg.overlap)
                stored == Content(metaFile'["A"])
                added == SubSeq(stored, Count(metaFile["A"]) + 1, Len(stored))
            IN  /\ [x \in 1..Len(added) |-> added[x].text] = expected
                /\ Len(loc[p].chunks) = Len(expected)]_vars

\* whether the sequence a is the beginning of the sequence b
IsPrefix(a, b) == Len(a) <= Len(b) /\ SubSeq(b, 1, Len(a)) = a

\* C28: a step of an append that writes a file of a scope writes the stored
\* vectors (records) followed by the vectors (records) of the new chunks in
\* chunk order, so N + n of them; and a step of any call other than a rebuild
\* or a reindex leaves every stored vector and record where it was.
C28_AppendKeepsPrefix ==
    [][\A p \in Procs : \A s \in Scopes :
         LET old_v == IF Exists(embFile[s]) THEN Content(embFile[s]) ELSE <<>>
             old_m == IF Exists(metaFile[s]) THEN Content(metaFile[s]) ELSE <<>>
             new_v == IF Exists(embFile'[s]) THEN Content(embFile'[s]) ELSE <<>>
             new_m == IF Exists(metaFile'[s]) THEN Content(metaFile'[s]) ELSE <<>>
         IN  ((pc'[p] # pc[p] \/ loc'[p] # loc[p]) /\ loc'[p].op \notin {"rebuild", "reindex"})
             => /\ IsPrefix(old_v, new_v) /\ IsPrefix(old_m, new_m)
                /\ (loc[p].op = "append" /\ loc[p].scope = s /\ embFile'[s] # embFile[s])
                      => new_v = old_v \o EncodeAll(loc[p].chunks)
                /\ (loc[p].op = "append" /\ loc[p].scope = s /\ metaFile'[s] # metaFile[s])
                      => /\ Len(new_m) = Len(old_m) + Len(loc[p].chunks)
                         /\ \A x \in 1..Len(loc[p].chunks) :
                               new_m[Len(old_m) + x].text = loc[p].chunks[x]]_vars

\* an append has returned on a scope that held a record before it
C28_Witness ==
    \E p \in Procs :
        /\ pc[p] = "idle" /\ loc[p].op = "append" /\ loc[p].status = "ok"
        /\ loc[p].chunks # <<>>
        /\ Count(metaFile[loc[p].scope]) = Len(loc[p].meta)
        /\ Count(metaFile[loc[p].scope]) > Len(loc[p].chunks)
        /\ Count(embFile[loc[p].scope]) = Count(metaFile[loc[p].scope])

\* C30: a query during which the generator fails ends in an error and writes
\* nothing: the vectors and the metadata of every scope and the chat histories
\* are what they were before the query.
C30_GeneratorFailureWritesNothing ==
    [][(nOps' = nOps + 1 /\ gOut'.n = nOps' /\ gOut'.status = "generr")
       => (/\ embFile' = embFile /\ metaFile' = metaFile /\ histFile' = histFile
           /\ gOut'.answer = <<>> /\ ~gOut'.memory_saved)]_vars

\* the generator has failed during a query that asked to save a memory, on a
\* scope whose chat history holds an earlier exchange
C30_Witness ==
    /\ gOut.status = "generr" /\ gOut.n = nOps
    /\ gOut.save_memory
    /\ gOut.ctx # <<>>
    /\ Len(histFile[gOut.scope]) = 2

====
